---- MODULE Spec2Model ----
(***************************************************************************)
(* Model of the terrain grid (Map), the movable body (Actor) and the       *)
(* motion resolver (Map.move, Actor.repel) of the repository.              *)
(*                                                                         *)
(* Numbers.  Positions, sizes and velocities are JavaScript numbers.  The  *)
(* model keeps them on a lattice: an integer v stands for v / Scale        *)
(* pixels.  Probe coordinates, which the code derives by interpolation and *)
(* by subtracting EPSILON, are records [n, e, d] standing for              *)
(* (n - e * EPSILON) / d pixels; d = 0 is the NaN that 0/0 produces.       *)
(* EPSILON is a positive constant smaller than every lattice distance, so  *)
(* only the sign of e matters when a probe is floored.                     *)
(***************************************************************************)
EXTENDS Integers, Sequences, FiniteSets, TLC

\* ---------------------------------------------------------------- bounds
Scale == 2          \* lattice points per pixel
GridW == 3          \* width of the generated grids
GridH == 3          \* height of the generated grids
MaxSpeed == 2       \* largest |velocity component| in pixels
Margin == 1         \* how far (pixels) outside the grid a body is followed
MaxSteps == 3       \* largest steps argument given to testLine
RepelSpan == 3      \* bodies of the repel runs start at x in 0 .. RepelSpan pixels
RepelCap == 6       \* largest |vx| (pixels) followed in the repel runs

\* ------------------------------------------------- terrain flags (Map.ts)
IS_SOLID == 1
IS_WALKABLE == 2
IS_POINT_WALKABLE == 4
IS_FEARLESS == 8
IS_WALLED == 16
IS_PASSABLE == 32
IS_DROPPABLE == 64

AIR == IS_DROPPABLE
SOLID == IS_SOLID + IS_WALLED + IS_WALKABLE
PASSABLE_SOLID == IS_WALKABLE + IS_PASSABLE
PASSABLE_RAMP == IS_WALKABLE + IS_PASSABLE
DROPPABLE == IS_WALKABLE + IS_PASSABLE + IS_DROPPABLE
POINT_PASSABLE == IS_POINT_WALKABLE + IS_DROPPABLE
SOLID_NO_FEAR == IS_SOLID + IS_FEARLESS + IS_WALKABLE + IS_WALLED
DROPPABLE_NO_FEAR == IS_WALKABLE + IS_FEARLESS + IS_PASSABLE + IS_DROPPABLE

GroundType == {AIR, SOLID, PASSABLE_SOLID, PASSABLE_RAMP, DROPPABLE,
               POINT_PASSABLE, SOLID_NO_FEAR, DROPPABLE_NO_FEAR}

\* (type & flag) !== 0 ; flag is a power of two
HasFlag(type, flag) == (type \div flag) % 2 = 1

isSolid(type) == HasFlag(type, IS_SOLID)
isWalkable(type) == HasFlag(type, IS_WALKABLE)
isPointWalkable(type) == HasFlag(type, IS_POINT_WALKABLE)
isFearless(type) == HasFlag(type, IS_FEARLESS)
isWalled(type) == HasFlag(type, IS_WALLED)
isPassable(type) == HasFlag(type, IS_PASSABLE)
isDroppable(type) == HasFlag(type, IS_DROPPABLE)

VARIABLES mapWidth, mapHeight, mapData, actor, other, call
vars == <<mapWidth, mapHeight, mapData, actor, other, call>>

\* ---------------------------------------------------------------- numbers
Abs(v) == IF v < 0 THEN -v ELSE v

\* a lattice value as a probe coordinate
Num(v) == [n |-> v, e |-> 0, d |-> Scale]
\* p - EPSILON
MinusEps(p) == [p EXCEPT !.e = p.e + p.d]
\* p + k pixels
PlusPx(p, k) == [p EXCEPT !.n = p.n + k * p.d]
NaN == [n |-> 0, e |-> 0, d |-> 0]
IsNaN(p) == p.d = 0
\* Math.floor of a probe coordinate, in pixels (not applied to NaN)
Floor(p) == IF p.e > 0 THEN (p.n - 1) \div p.d ELSE p.n \div p.d
\* Math.ceil of a lattice value, in pixels
Ceil(v) == -((-v) \div Scale)
\* equality of two probe coordinates as numbers
NumEq(p, q) ==
    IF IsNaN(p) \/ IsNaN(q) THEN FALSE
    ELSE p.n * q.d = q.n * p.d /\ p.e * q.d = q.e * p.d

\* start + (end - start) * i / steps, steps given on the lattice
Lerp(start, end, i, steps) ==
    [n |-> start.n * steps + (end.n - start.n) * i * Scale,
     e |-> start.e * steps + (end.e - start.e) * i * Scale,
     d |-> start.d * steps]

\* -------------------------------------------------------------- the grid
\* x < 0 || x >= limit after Math.floor; every comparison with NaN is false
OutOfRange(x, limit) ==
    IF IsNaN(x) THEN FALSE ELSE Floor(x) < 0 \/ Floor(x) >= limit

\* mapData[index]: undefined when the index is NaN or past the end of the
\* array; undefined is carried as 0, its value in (type & flag)
ReadMapData(x, y, index) ==
    IF IsNaN(x) \/ IsNaN(y) THEN 0
    ELSE IF index \in DOMAIN mapData THEN mapData[index] ELSE 0

\* getPixelData without the closed-world boundary: outside the grid is AIR
getPixelDataOpen(x, y) ==
    IF OutOfRange(x, mapWidth) \/ OutOfRange(y, mapHeight) THEN AIR
    ELSE ReadMapData(x, y, IF IsNaN(x) \/ IsNaN(y) THEN 0 ELSE Floor(y) * mapWidth + Floor(x))

\* getPixelData indexing the grid column-major
getPixelDataColumnMajor(x, y) ==
    IF OutOfRange(x, mapWidth) \/ OutOfRange(y, mapHeight) THEN SOLID
    ELSE ReadMapData(x, y, IF IsNaN(x) \/ IsNaN(y) THEN 0 ELSE Floor(x) * mapHeight + Floor(y))

getPixelData(x, y) ==
    IF OutOfRange(x, mapWidth) \/ OutOfRange(y, mapHeight) THEN SOLID
    ELSE ReadMapData(x, y, IF IsNaN(x) \/ IsNaN(y) THEN 0 ELSE Floor(y) * mapWidth + Floor(x))

\* the point the loop of testLine passes to the predicate at iteration i
TestPoint(start, end, i, steps) ==
    [x |-> Lerp(start.x, end.x, i, steps), y |-> Lerp(start.y, end.y, i, steps)]

\* the iterations the loop of testLine runs: i = 0 .. while i <= steps
LastIter(steps) == steps \div Scale

RECURSIVE TestLineFrom(_, _, _, _, _)
\* the points evaluated from iteration i on, up to and including the first hit
TestLineFrom(start, end, flag, steps, i) ==
    IF i > LastIter(steps) THEN <<>>
    ELSE LET p == TestPoint(start, end, i, steps)
         IN  IF HasFlag(getPixelData(p.x, p.y), flag) THEN <<p>>
             ELSE <<p>> \o TestLineFrom(start, end, flag, steps, i + 1)

\* the sequence of points testLine evaluates the predicate at
TestLineCalls(start, end, flag, steps) == TestLineFrom(start, end, flag, steps, 0)

testLine(start, end, flag, steps) ==
    LET calls == TestLineCalls(start, end, flag, steps)
    IN  /\ Len(calls) > 0
        /\ HasFlag(getPixelData(calls[Len(calls)].x, calls[Len(calls)].y), flag)

\* --------------------------------------------------------------- the body
\* fallthrough is <<>> when undefined and <<y>> when set
Body(x, y, sx, sy, vx, vy, ft, w, c) ==
    [position |-> [x |-> x, y |-> y], size |-> [x |-> sx, y |-> sy],
     velocity |-> [x |-> vx, y |-> vy], fallthrough |-> ft, weight |-> w,
     collideable |-> c]

top(a) == Num(a.position.y)
bottom(a) == Num(a.position.y + a.size.y)
left(a) == Num(a.position.x)
right(a) == Num(a.position.x + a.size.x)
horizontalCenter(a) == [n |-> 2 * a.position.x + a.size.x, e |-> 0, d |-> 2 * Scale]

\* a vertical probe offset: px whole pixels, minus EPSILON when eps = 1
Offset(px, eps) == [px |-> px, eps |-> eps]
AddOffset(p, off) ==
    IF off.eps = 1 THEN MinusEps(PlusPx(p, off.px)) ELSE PlusPx(p, off.px)

actorIsOnWalkableGround(a, verticalOffset) ==
    \/ testLine([x |-> left(a), y |-> AddOffset(bottom(a), verticalOffset)],
                [x |-> MinusEps(right(a)), y |-> AddOffset(bottom(a), verticalOffset)],
                IS_WALKABLE, 2 * Scale)
    \/ isPointWalkable(getPixelData(horizontalCenter(a), AddOffset(bottom(a), verticalOffset)))

actorIsOnSolidGround(a, verticalOffset) ==
    testLine([x |-> left(a), y |-> AddOffset(bottom(a), verticalOffset)],
             [x |-> MinusEps(right(a)), y |-> AddOffset(bottom(a), verticalOffset)],
             IS_SOLID, 2 * Scale)

actorIsInPassable(a) ==
    IF a.fallthrough # <<>> /\ Abs(a.position.y - a.fallthrough[1]) < 5 * Scale THEN TRUE
    ELSE \/ isPointWalkable(getPixelData(horizontalCenter(a), PlusPx(bottom(a), -2)))
         \/ testLine([x |-> left(a), y |-> PlusPx(bottom(a), -2)],
                     [x |-> MinusEps(right(a)), y |-> PlusPx(bottom(a), -2)],
                     IS_PASSABLE, a.size.x)

\* isGrounded without the solid-ground shortcut
isGroundedNoSolidCheck(a) ==
    IF a.velocity.y < 0 THEN FALSE
    ELSE IF ~actorIsOnWalkableGround(a, Offset(0, 0)) THEN FALSE
    ELSE IF actorIsInPassable(a) THEN FALSE
    ELSE TRUE

isGrounded(a) ==
    IF a.velocity.y < 0 THEN FALSE
    ELSE IF ~actorIsOnWalkableGround(a, Offset(0, 0)) THEN FALSE
    ELSE IF actorIsOnSolidGround(a, Offset(0, 0)) THEN TRUE
    ELSE IF actorIsInPassable(a) THEN FALSE
    ELSE TRUE

\* ------------------------------------------------------------------- move
\* Math.ceil(Math.sqrt(vx * vx + vy * vy)), vx and vy on the lattice
Magnitude(vx, vy) ==
    CHOOSE m \in 0 .. (Abs(vx) + Abs(vy)) :
        /\ m * m * Scale * Scale >= vx * vx + vy * vy
        /\ \A k \in 0 .. (m - 1) : k * k * Scale * Scale < vx * vx + vy * vy

\* the velocities whose per-sub-step displacement v / magnitude is on the lattice
Representable(vx, vy) ==
    LET m == Magnitude(vx, vy)
    IN  IF m = 0 THEN TRUE ELSE vx % m = 0 /\ vy % m = 0

\* MoveVertical snapping with Math.floor(y), the EPSILON forgotten
MoveVerticalFloor(st, magnitude) ==
    IF ~st.movingY THEN st
    ELSE LET a1 == [st.actor EXCEPT !.position.y = @ + st.actor.velocity.y \div magnitude]
         IN  IF a1.velocity.y < 0 THEN [st EXCEPT !.actor = a1]
             ELSE IF \/ actorIsOnSolidGround(a1, Offset(0, 1))
                     \/ (actorIsOnWalkableGround(a1, Offset(0, 1)) /\ ~actorIsInPassable(a1))
                  THEN [st EXCEPT !.movingY = FALSE,
                                  !.collisions = <<st.collisions[1], TRUE>>,
                                  !.actor = [a1 EXCEPT !.position.y =
                                                Floor(Num(a1.position.y)) * Scale]]
                  ELSE [st EXCEPT !.actor = a1]

\* the vertical part of one sub-step; st = [actor, movingX, movingY, collisions]
MoveVertical(st, magnitude) ==
    IF ~st.movingY THEN st
    ELSE LET a1 == [st.actor EXCEPT !.position.y = @ + st.actor.velocity.y \div magnitude]
         IN  IF a1.velocity.y < 0 THEN [st EXCEPT !.actor = a1]
             ELSE IF \/ actorIsOnSolidGround(a1, Offset(0, 1))
                     \/ (actorIsOnWalkableGround(a1, Offset(0, 1)) /\ ~actorIsInPassable(a1))
                  THEN [st EXCEPT !.movingY = FALSE,
                                  !.collisions = <<st.collisions[1], TRUE>>,
                                  !.actor = [a1 EXCEPT !.position.y =
                                                Floor(MinusEps(Num(a1.position.y))) * Scale]]
                  ELSE [st EXCEPT !.actor = a1]

\* the leading-edge wall probe of the horizontal part
WallAhead(a) ==
    IF a.velocity.x < 0
    THEN testLine([x |-> left(a), y |-> top(a)],
                  [x |-> left(a), y |-> MinusEps(PlusPx(bottom(a), -1))],
                  IS_WALLED, Scale)
    ELSE testLine([x |-> MinusEps(right(a)), y |-> top(a)],
                  [x |-> MinusEps(right(a)), y |-> MinusEps(PlusPx(bottom(a), -1))],
                  IS_WALLED, Scale)

\* the x the body is snapped to when the wall probe hits
SnapX(a) ==
    IF a.velocity.x < 0 THEN Ceil(a.position.x) * Scale
    ELSE Floor(MinusEps(Num(a.position.x))) * Scale

\* the 1px slope detection that follows the wall probe when not moving vertically
Slope(a) ==
    IF actorIsOnWalkableGround(a, Offset(-1, 0))
    THEN [a EXCEPT !.position.y = @ - Scale]
    ELSE IF ~actorIsOnWalkableGround(a, Offset(0, 0)) /\ actorIsOnWalkableGround(a, Offset(1, 0))
    THEN [a EXCEPT !.position.y = @ + Scale]
    ELSE a

\* MoveHorizontal that also zeroes the horizontal velocity on a wall hit
MoveHorizontalStopsVelocity(st, magnitude) ==
    IF ~st.movingX THEN st
    ELSE LET a1 == [st.actor EXCEPT !.position.x = @ + st.actor.velocity.x \div magnitude]
             hit == WallAhead(a1)
             a2 == IF hit THEN [a1 EXCEPT !.position.x = SnapX(a1), !.velocity.x = 0] ELSE a1
             a3 == IF ~st.movingY THEN Slope(a2) ELSE a2
         IN  [st EXCEPT !.movingX = IF hit THEN FALSE ELSE @,
                        !.collisions = IF hit THEN <<TRUE, st.collisions[2]>> ELSE @,
                        !.actor = a3]

\* the horizontal part of one sub-step
MoveHorizontal(st, magnitude) ==
    IF ~st.movingX THEN st
    ELSE LET a1 == [st.actor EXCEPT !.position.x = @ + st.actor.velocity.x \div magnitude]
             hit == WallAhead(a1)
             a2 == IF hit THEN [a1 EXCEPT !.position.x = SnapX(a1)] ELSE a1
             a3 == IF ~st.movingY THEN Slope(a2) ELSE a2
         IN  [st EXCEPT !.movingX = IF hit THEN FALSE ELSE @,
                        !.collisions = IF hit THEN <<TRUE, st.collisions[2]>> ELSE @,
                        !.actor = a3]

RECURSIVE MoveLoop(_, _, _)
MoveLoop(st, i, magnitude) ==
    IF ~(i < magnitude /\ (st.movingX \/ st.movingY)) THEN st
    ELSE MoveLoop(MoveHorizontal(MoveVertical(st, magnitude), magnitude), i + 1, magnitude)

\* Map.move: the body after the call and the returned pair of flags
move(a) ==
    LET magnitude == Magnitude(a.velocity.x, a.velocity.y)
        st == MoveLoop([actor |-> a, movingX |-> a.velocity.x # 0,
                        movingY |-> a.velocity.y # 0,
                        collisions |-> <<FALSE, FALSE>>], 0, magnitude)
    IN  [actor |-> st.actor, collisions |-> st.collisions]

\* ------------------------------------------------------------------ repel
\* damper is carried in tenths: the default 8.5 is 85
DefaultDamper == 85

\* physicalConstants.repulsionForce: a positive force (in lattice units of
\* velocity) that does not grow with the distance; dist is in half lattice units
repulsionForce(dist, damper) == 2 * (1 + damper \div (40 * (1 + Abs(dist))))

\* repel without the vertical band test
repelAnyBand(this, that, damper) ==
    LET dist == (2 * this.position.x + this.size.x) - (2 * that.position.x + that.size.x)
        force == repulsionForce(dist, damper)
        onThis == (force * that.weight) \div this.weight
        onThat == (force * this.weight) \div that.weight
        unchanged == [this |-> this, that |-> that]
    IN  IF ~this.collideable THEN unchanged @@ [ret |-> FALSE]
        ELSE IF 100 * Abs(dist) < 85 * (this.size.x + that.size.x)
        THEN IF ~that.collideable THEN unchanged @@ [ret |-> TRUE]
             ELSE IF dist < 0
                  THEN [this |-> [this EXCEPT !.velocity.x =
                                     @ - onThis * (IF this.velocity.x > 0 THEN 2 ELSE 1)],
                        that |-> [that EXCEPT !.velocity.x =
                                     @ + onThat * (IF that.velocity.x < 0 THEN 2 ELSE 1)],
                        ret |-> TRUE]
                  ELSE [this |-> [this EXCEPT !.velocity.x =
                                     @ + onThis * (IF this.velocity.x < 0 THEN 2 ELSE 1)],
                        that |-> [that EXCEPT !.velocity.x =
                                     @ - onThat * (IF that.velocity.x > 0 THEN 2 ELSE 1)],
                        ret |-> TRUE]
        ELSE unchanged @@ [ret |-> FALSE]

\* repel testing the range against the full widths, the halving forgotten
repelFullWidths(this, that, damper) ==
    LET dist == (2 * this.position.x + this.size.x) - (2 * that.position.x + that.size.x)
        force == repulsionForce(dist, damper)
        onThis == (force * that.weight) \div this.weight
        onThat == (force * this.weight) \div that.weight
        unchanged == [this |-> this, that |-> that]
    IN  IF ~this.collideable THEN unchanged @@ [ret |-> FALSE]
        ELSE IF 100 * Abs(dist) < 85 * 2 * (this.size.x + that.size.x)
        THEN IF ~that.collideable THEN unchanged @@ [ret |-> TRUE]
             ELSE IF Abs((this.position.y + this.size.y) - (that.position.y + that.size.y)) < 15 * Scale
             THEN IF dist < 0
                  THEN [this |-> [this EXCEPT !.velocity.x =
                                     @ - onThis * (IF this.velocity.x > 0 THEN 2 ELSE 1)],
                        that |-> [that EXCEPT !.velocity.x =
                                     @ + onThat * (IF that.velocity.x < 0 THEN 2 ELSE 1)],
                        ret |-> TRUE]
                  ELSE [this |-> [this EXCEPT !.velocity.x =
                                     @ + onThis * (IF this.velocity.x < 0 THEN 2 ELSE 1)],
                        that |-> [that EXCEPT !.velocity.x =
                                     @ - onThat * (IF that.velocity.x > 0 THEN 2 ELSE 1)],
                        ret |-> TRUE]
             ELSE unchanged @@ [ret |-> TRUE]
        ELSE unchanged @@ [ret |-> FALSE]

\* Actor.repel: both bodies after the call and the returned flag
repel(this, that, damper) ==
    LET dist == (2 * this.position.x + this.size.x) - (2 * that.position.x + that.size.x)
        force == repulsionForce(dist, damper)
        \* force / weightRatio and force * weightRatio, weightRatio = this.weight / that.weight
        onThis == (force * that.weight) \div this.weight
        onThat == (force * this.weight) \div that.weight
        unchanged == [this |-> this, that |-> that]
    IN  IF ~this.collideable THEN unchanged @@ [ret |-> FALSE]
        ELSE IF 100 * Abs(dist) < 85 * (this.size.x + that.size.x)
        THEN IF ~that.collideable THEN unchanged @@ [ret |-> TRUE]
             ELSE IF Abs((this.position.y + this.size.y) - (that.position.y + that.size.y)) < 15 * Scale
             THEN IF dist < 0
                  THEN [this |-> [this EXCEPT !.velocity.x =
                                     @ - onThis * (IF this.velocity.x > 0 THEN 2 ELSE 1)],
                        that |-> [that EXCEPT !.velocity.x =
                                     @ + onThat * (IF that.velocity.x < 0 THEN 2 ELSE 1)],
                        ret |-> TRUE]
                  ELSE [this |-> [this EXCEPT !.velocity.x =
                                     @ + onThis * (IF this.velocity.x < 0 THEN 2 ELSE 1)],
                        that |-> [that EXCEPT !.velocity.x =
                                     @ - onThat * (IF that.velocity.x > 0 THEN 2 ELSE 1)],
                        ret |-> TRUE]
             ELSE unchanged @@ [ret |-> TRUE]
        ELSE unchanged @@ [ret |-> FALSE]

\* Actor.applyImpulse
applyImpulse(a, x, y) ==
    [a EXCEPT !.velocity.x = @ + x, !.velocity.y = @ + y]

\* ------------------------------------------------------------------ grids
Cells(w, h) == 0 .. (w * h - 1)
\* new Uint8Array(0), the map data after destroy
EmptyMap == [i \in {} |-> AIR]
AirMap(w, h) == [i \in Cells(w, h) |-> AIR]
RowMap(w, h, r, t) == [i \in Cells(w, h) |-> IF i \div w = r THEN t ELSE AIR]
ColMap(w, h, c, t) == [i \in Cells(w, h) |-> IF i % w = c THEN t ELSE AIR]
CellMap(w, h, k, t) == [i \in Cells(w, h) |-> IF i = k THEN t ELSE AIR]

\* the grids of the movement runs: open air, a floor row, a wall column at either side
MoveMaps ==
    {AirMap(GridW, GridH), RowMap(GridW, GridH, GridH - 1, SOLID)}
    \cup {ColMap(GridW, GridH, c, SOLID) : c \in {0, GridW - 1}}

\* the grids of the falling runs: open air, one solid row, a platform row
FallMaps ==
    {AirMap(GridW, GridH), RowMap(GridW, GridH, GridH - 1, PASSABLE_SOLID)}
    \cup {RowMap(GridW, GridH, r, SOLID) : r \in 1 .. (GridH - 1)}

\* the grids of the query runs: one marked cell, so that every index is told apart
QueryMaps ==
    {CellMap(GridW, GridH, k, t) : k \in Cells(GridW, GridH), t \in {SOLID, PASSABLE_SOLID}}

NoBody == Body(0, 0, 0, 0, 0, 0, <<>>, 1, TRUE)

\* whether the rectangle of a lies in [0, mapWidth] x [0, mapHeight]
InsideGrid(a) ==
    /\ a.position.x >= 0 /\ a.position.y >= 0
    /\ a.position.x + a.size.x <= mapWidth * Scale
    /\ a.position.y + a.size.y <= mapHeight * Scale

\* the region bodies are followed in
InBox(a, margin) ==
    /\ a.position.x >= -margin * Scale /\ a.position.x <= (mapWidth + margin) * Scale
    /\ a.position.y >= -margin * Scale /\ a.position.y <= (mapHeight + margin) * Scale

\* ---------------------------------------------------------------- actions
Move(margin) ==
    /\ LET r == move(actor)
       IN  /\ InBox(r.actor, margin)
           /\ actor' = r.actor
           /\ call' = [op |-> "move", pre |-> actor, ret |-> r.collisions]
    /\ UNCHANGED <<mapWidth, mapHeight, mapData, other>>

ApplyImpulse(x, y, cap) ==
    /\ LET a == applyImpulse(actor, x, y)
       IN  /\ Abs(a.velocity.x) <= cap * Scale
           /\ Abs(a.velocity.y) <= cap * Scale
           /\ Representable(a.velocity.x, a.velocity.y)
           /\ actor' = a
    /\ call' = [op |-> "applyImpulse"]
    /\ UNCHANGED <<mapWidth, mapHeight, mapData, other>>

Repel ==
    /\ LET r == repel(actor, other, DefaultDamper)
       IN  /\ Abs(r.this.velocity.x) <= RepelCap * Scale
           /\ Abs(r.that.velocity.x) <= RepelCap * Scale
           /\ actor' = r.this
           /\ other' = r.that
           /\ call' = [op |-> "repel", pre |-> actor, preOther |-> other, ret |-> r.ret]
    /\ UNCHANGED <<mapWidth, mapHeight, mapData>>

IsGrounded ==
    /\ call' = [op |-> "isGrounded", pre |-> actor, ret |-> isGrounded(actor)]
    /\ UNCHANGED <<mapWidth, mapHeight, mapData, actor, other>>

\* Map.destroy: the map data is cleared, mapWidth and mapHeight stay; a query
\* whose arguments are drawn but not yet applied stays pending
Destroy ==
    /\ mapData' = EmptyMap
    /\ call' = IF call.op \in {"args getPixelData", "args testLine"} THEN call
               ELSE [op |-> "destroy"]
    /\ UNCHANGED <<mapWidth, mapHeight, actor, other>>

GetPixelData(x, y) ==
    /\ call' = [op |-> "getPixelData", x |-> x, y |-> y, ret |-> getPixelData(x, y)]
    /\ UNCHANGED <<mapWidth, mapHeight, mapData, actor, other>>

TestLine(start, end, flag, steps) ==
    /\ call' = [op |-> "testLine", start |-> start, end |-> end, flag |-> flag, steps |-> steps,
                calls |-> TestLineCalls(start, end, flag, steps * Scale),
                ret |-> testLine(start, end, flag, steps * Scale)]
    /\ UNCHANGED <<mapWidth, mapHeight, mapData, actor, other>>

\* ---------------------------------------------------------- specifications
Lattice(lo, hi) == (lo * Scale) .. (hi * Scale)

\* body sizes of the movement runs: 1x1, 2x2 and one of non-integer height
MoveSizes == {<<Scale, Scale>>, <<2 * Scale, 2 * Scale>>, <<Scale, Scale + 1>>}

Impulses == Lattice(-MaxSpeed, MaxSpeed)
\* impulses of one lattice unit or one pixel
StepImpulses == {-Scale, -1, 0, 1, Scale}
WholePixels(lo, hi) == {k * Scale : k \in lo .. hi}

\* movement in the generated grids; the body starts inside the grid, at rest,
\* on a whole pixel
Init ==
    /\ mapWidth = GridW
    /\ mapHeight = GridH
    /\ mapData \in MoveMaps
    /\ actor \in {Body(x, y, sz[1], sz[2], 0, 0, <<>>, 1, TRUE) :
                    x \in WholePixels(0, GridW), y \in WholePixels(0, GridH), sz \in MoveSizes}
    /\ InsideGrid(actor)
    /\ other = NoBody
    /\ call = [op |-> "init"]

Next ==
    \/ Move(Margin)
    \/ Destroy
    \/ \E x \in StepImpulses, y \in StepImpulses : ApplyImpulse(x, y, MaxSpeed)

Spec == Init /\ [][Next]_vars

\* straight falls and rises (vx = 0 throughout): the body starts anywhere on
\* the lattice, inside the grid, and only its vertical velocity is changed;
\* movement along both axes is followed in Spec
InitFall ==
    /\ mapWidth = GridW
    /\ mapHeight = GridH
    /\ mapData \in FallMaps
    /\ actor \in {Body(x, y, sz[1], sz[2], 0, 0, ft, 1, TRUE) :
                    x \in Lattice(0, GridW), y \in Lattice(0, GridH),
                    sz \in MoveSizes, ft \in {<<>>, <<Scale>>}}
    /\ InsideGrid(actor)
    /\ other = NoBody
    /\ call = [op |-> "init"]

NextFall ==
    \/ Move(Margin)
    \/ Destroy
    \/ \E y \in Impulses : ApplyImpulse(0, y, MaxSpeed)

SpecFall == InitFall /\ [][NextFall]_vars

\* the example scenario: a 10x1 grid, columns 0-4 AIR and 5-9 SOLID,
\* a 2x2 body at (2, -3) with velocity (0, 5)
ScenarioMap == [i \in Cells(10, 1) |-> IF i <= 4 THEN AIR ELSE SOLID]
ScenarioBody == Body(2 * Scale, -3 * Scale, 2 * Scale, 2 * Scale, 0, 5 * Scale, <<>>, 1, TRUE)

InitScenario ==
    /\ mapWidth = 10
    /\ mapHeight = 1
    /\ mapData = ScenarioMap
    /\ actor = ScenarioBody
    /\ other = NoBody
    /\ call = [op |-> "init"]

NextScenario ==
    \/ Move(4)
    \/ Destroy
    \/ \E x \in Lattice(-1, 1), y \in Lattice(-1, 1) : ApplyImpulse(x, y, 5)

SpecScenario == InitScenario /\ [][NextScenario]_vars

\* ground contact: grids of uniform rows and grids with one marked cell
GroundRows == {AIR, SOLID, PASSABLE_SOLID, POINT_PASSABLE}
GroundMaps ==
    {[i \in Cells(GridW, GridH) |-> rows[(i \div GridW) + 1]] : rows \in [1 .. GridH -> GroundRows]}
    \cup QueryMaps

InitGround ==
    /\ mapWidth = GridW
    /\ mapHeight = GridH
    /\ mapData \in GroundMaps
    /\ actor \in {Body(x, y, sz[1], sz[2], 0, 0, ft, 1, TRUE) :
                    x \in Lattice(0, GridW), y \in Lattice(0, GridH),
                    sz \in MoveSizes, ft \in {<<>>, <<Scale>>}}
    /\ InsideGrid(actor)
    /\ other = NoBody
    /\ call = [op |-> "init"]

NextGround ==
    \/ IsGrounded
    \/ Destroy
    \/ \E y \in {-Scale, Scale} : ApplyImpulse(0, y, 1)

SpecGround == InitGround /\ [][NextGround]_vars

\* point and line queries: Init draws the arguments, the action applies the function
QueryPoints == [x : Lattice(0, GridW), y : {k * Scale : k \in 0 .. GridH}]

PointQueries ==
    {[op |-> "args getPixelData", x |-> x, y |-> y] :
        x \in {Num(v) : v \in Lattice(-Margin, GridW + Margin)} \cup {NaN},
        y \in {Num(v) : v \in Lattice(-Margin, GridH + Margin)} \cup {NaN}}

LineQueries ==
    {[op |-> "args testLine",
      start |-> [x |-> Num(s.x), y |-> Num(s.y)],
      end |-> [x |-> IF eps = 1 THEN MinusEps(Num(s.x + dx * Scale)) ELSE Num(s.x + dx * Scale),
               y |-> Num(s.y + dy * Scale)],
      flag |-> flag, steps |-> steps] :
        s \in QueryPoints, dx \in 0 .. MaxSteps, dy \in {0, 1}, eps \in {0, 1},
        flag \in {IS_SOLID, IS_PASSABLE}, steps \in 0 .. MaxSteps}

InitQuery ==
    /\ mapWidth = GridW
    /\ mapHeight = GridH
    /\ mapData \in QueryMaps
    /\ actor = NoBody
    /\ other = NoBody
    /\ call \in PointQueries \cup LineQueries

NextQuery ==
    \/ Destroy
    \/ /\ call.op = "args getPixelData"
       /\ GetPixelData(call.x, call.y)
    \/ /\ call.op = "args testLine"
       /\ TestLine(call.start, call.end, call.flag, call.steps)

SpecQuery == InitQuery /\ [][NextQuery]_vars

\* repulsion between two bodies: the other body stands anywhere from
\* overlapping the caller to well clear of it on either side, so that the
\* pair is in range in some runs and out of range in others
RepelBodies(xs, ys) ==
    {Body(x, y, sx, Scale, vx, 0, <<>>, w, c) :
        x \in xs, y \in ys, sx \in {2 * Scale, 3 * Scale}, vx \in {-Scale, 0, Scale},
        w \in {1, 2}, c \in BOOLEAN}

InitRepel ==
    /\ mapWidth = GridW
    /\ mapHeight = GridH
    /\ mapData = AirMap(GridW, GridH)
    /\ actor \in RepelBodies({(RepelSpan * Scale) \div 2}, {0})
    /\ other \in RepelBodies(Lattice(-RepelSpan, 2 * RepelSpan), {0, 15 * Scale - 1, 15 * Scale})
    /\ call = [op |-> "init"]

NextRepel ==
    \/ Repel
    \/ \E x \in {-Scale, Scale} : ApplyImpulse(x, 0, RepelCap)

SpecRepel == InitRepel /\ [][NextRepel]_vars

\* ================================================================= claims
Moved == call.op = "move"

\* the grid is open air with one SOLID row r
SolidRowAt(r) == mapData = RowMap(mapWidth, mapHeight, r, SOLID)
\* the grid is open air with one SOLID (hence WALLED) column c
SolidColAt(c) == mapData = ColMap(mapWidth, mapHeight, c, SOLID)

IntegerHeight(a) == a.size.y % Scale = 0
Bottom(a) == a.position.y + a.size.y
Right(a) == a.position.x + a.size.x

\* a body within the columns of the grid, above row r, falling straight down
FallsToward(a, r) ==
    /\ a.velocity.x = 0 /\ a.velocity.y > 0
    /\ a.position.x >= 0 /\ Right(a) <= mapWidth * Scale
    /\ Bottom(a) >= 0 /\ Bottom(a) <= r * Scale

\* C1 as stated: a body falling toward a single solid row that its velocity
\* carries it onto gets the vertical flag and ends with its bottom on the
\* row's top, whatever its position, size and speed.
C1_Original ==
    \A r \in 1 .. (mapHeight - 1) :
        (/\ Moved /\ SolidRowAt(r) /\ FallsToward(call.pre, r)
         /\ Bottom(call.pre) + call.pre.velocity.y > r * Scale)
        => (call.ret[2] /\ Bottom(actor) = r * Scale)

\* C1 amended: a body of integer height falling toward a single solid row
\* that its velocity carries it strictly past gets the vertical flag and
\* ends with its bottom exactly on the row's top.
C1_Landing ==
    \A r \in 1 .. (mapHeight - 1) :
        (/\ Moved /\ SolidRowAt(r) /\ FallsToward(call.pre, r)
         /\ IntegerHeight(call.pre)
         /\ Bottom(call.pre) + call.pre.velocity.y > r * Scale)
        => (call.ret[2] /\ Bottom(actor) = r * Scale
            /\ actor.position.x = call.pre.position.x)

\* C1 witness: a body that started at least a pixel above the row has landed on it
C1_Witness ==
    \E r \in 1 .. (mapHeight - 1) :
        /\ Moved /\ SolidRowAt(r) /\ FallsToward(call.pre, r)
        /\ IntegerHeight(call.pre)
        /\ Bottom(call.pre) + Scale <= r * Scale
        /\ Bottom(call.pre) + call.pre.velocity.y > r * Scale
        /\ call.ret[2] /\ Bottom(actor) = r * Scale

\* C3 as stated: in the example scenario one move gives the vertical flag
\* and leaves the body's bottom on the top of row 0, not beyond it.
C3_Original ==
    (Moved /\ call.pre = ScenarioBody)
    => (call.ret[2] /\ Bottom(actor) = 0)

\* C3 amended: in the example scenario one move gives the vertical flag and
\* the body does not cross the top of row 0: it stays where it was, at
\* (2, -3) with its bottom at -1, because the cells above the grid are
\* out of bounds and so SOLID.
C3_Scenario ==
    (Moved /\ call.pre = ScenarioBody)
    => (/\ call.ret = <<FALSE, TRUE>>
        /\ actor.position = [x |-> 2 * Scale, y |-> -3 * Scale]
        /\ Bottom(actor) <= 0)

\* C3 witness: the scenario's move has been made
C3_Witness ==
    Moved /\ call.pre = ScenarioBody /\ call.ret[2] /\ actor.position.y = -3 * Scale

\* what move must leave alone
SameButPosition(a, b) ==
    /\ a.velocity = b.velocity /\ a.size = b.size /\ a.weight = b.weight
    /\ a.fallthrough = b.fallthrough /\ a.collideable = b.collideable

\* the last call was a straight fall onto the single solid row of the grid,
\* from above it and within the grid's columns, that reported a vertical
\* collision
Landed ==
    /\ Moved /\ call.ret[2]
    /\ \E r \in 1 .. (mapHeight - 1) : SolidRowAt(r) /\ FallsToward(call.pre, r)

\* C10 as stated: move changes only the position, and a landed body moved
\* again with the same velocity gets the vertical flag again and stays put.
C10_Original ==
    [][/\ call'.op = "move" => SameButPosition(actor, actor')
       /\ (Landed /\ call'.op = "move" /\ call'.pre = actor)
          => (call'.ret[2] /\ actor'.position = actor.position)]_vars

\* C10 amended: move changes only the position, and a landed body of integer
\* height moved again with the same velocity gets the vertical flag again
\* and keeps its position.
C10_Frame ==
    [][/\ call'.op = "move" => SameButPosition(actor, actor')
       /\ (Landed /\ IntegerHeight(actor) /\ call'.op = "move" /\ call'.pre = actor)
          => (call'.ret[2] /\ actor'.position = actor.position)]_vars

\* C10 witness: a landed body of integer height was moved again and stayed put
C10_Witness ==
    /\ Landed /\ IntegerHeight(actor)
    /\ call.pre.position = actor.position
    /\ call.pre.velocity = actor.velocity

\* C2 as stated: a body moving horizontally into a column of WALLED cells
\* gets the horizontal flag and ends with its leading edge on the wall's
\* boundary, never overlapping the column.
C2_WallStop ==
    /\ (/\ Moved /\ SolidColAt(0)
        /\ call.pre.velocity.x < 0 /\ call.pre.velocity.y = 0
        /\ call.pre.position.x >= Scale
        /\ call.pre.position.x + call.pre.velocity.x < Scale
        /\ call.pre.position.y >= 0 /\ Bottom(call.pre) <= mapHeight * Scale)
       => (call.ret[1] /\ actor.position.x = Scale)
    /\ (/\ Moved /\ SolidColAt(mapWidth - 1)
        /\ call.pre.velocity.x > 0 /\ call.pre.velocity.y = 0
        /\ Right(call.pre) <= (mapWidth - 1) * Scale
        /\ Right(call.pre) + call.pre.velocity.x > (mapWidth - 1) * Scale
        /\ call.pre.position.y >= 0 /\ Bottom(call.pre) <= mapHeight * Scale)
       => (call.ret[1] /\ Right(actor) = (mapWidth - 1) * Scale)

\* C4 as stated: a body that starts inside the grid stays inside it after
\* any sequence of moves.
C4_StaysInside == InsideGrid(actor)

\* ------------------------------------------------------------ repel claims
Repelled == call.op = "repel"

\* twice the lattice distance between the horizontal centres, this minus that
CentreGap(a, b) == (2 * a.position.x + a.size.x) - (2 * b.position.x + b.size.x)
\* |gap of centres| < 0.85 * (a.width / 2 + b.width / 2)
InRange(a, b) == 100 * Abs(CentreGap(a, b)) < 85 * (a.size.x + b.size.x)
SameBand(a, b) == Abs(Bottom(a) - Bottom(b)) < 15 * Scale

\* C5: two collideable bodies in the same band and in range are pushed apart
\* (repel returns true, the left one's vx decreases and the right one's
\* increases; with equal centres the caller's increases and the other's
\* decreases); out of range repel returns false and changes no velocity.
C5_PushedApart ==
    Repelled =>
        LET a == call.pre
            b == call.preOther
            da == actor.velocity.x - a.velocity.x
            db == other.velocity.x - b.velocity.x
        IN  /\ (a.collideable /\ b.collideable /\ SameBand(a, b) /\ InRange(a, b))
               => /\ call.ret
                  /\ CentreGap(a, b) < 0 => (da < 0 /\ db > 0)
                  /\ CentreGap(a, b) > 0 => (da > 0 /\ db < 0)
                  /\ CentreGap(a, b) = 0 => (da > 0 /\ db < 0)
            /\ (a.collideable /\ b.collideable /\ ~InRange(a, b))
               => (~call.ret /\ da = 0 /\ db = 0)

\* C5 witness: a body left of the other one was pushed further left, the
\* other one to the right
C5_Witness ==
    /\ Repelled /\ call.ret
    /\ call.pre.collideable /\ call.preOther.collideable
    /\ CentreGap(call.pre, call.preOther) < 0
    /\ actor.velocity.x < call.pre.velocity.x
    /\ other.velocity.x > call.preOther.velocity.x

\* C6: repel changes no velocity when the caller is not collideable (returns
\* false), when the other body is not collideable but in range (returns
\* true), and when both are collideable and in range but in different bands
\* (returns true); it never changes positions, sizes, weights or vy.
C6_NoInteraction ==
    Repelled =>
        LET a == call.pre
            b == call.preOther
            same == actor = a /\ other = b
        IN  /\ ~a.collideable => (~call.ret /\ same)
            /\ (a.collideable /\ ~b.collideable /\ InRange(a, b)) => (call.ret /\ same)
            /\ (a.collideable /\ b.collideable /\ InRange(a, b) /\ ~SameBand(a, b))
               => (call.ret /\ same)
            /\ actor = [a EXCEPT !.velocity.x = actor.velocity.x]
            /\ other = [b EXCEPT !.velocity.x = other.velocity.x]

\* C6 witness: the other body is not collideable and in range, in the same
\* band, and the call returned true
C6_Witness ==
    /\ Repelled /\ call.ret
    /\ call.pre.collideable /\ ~call.preOther.collideable
    /\ InRange(call.pre, call.preOther) /\ SameBand(call.pre, call.preOther)
    /\ actor = call.pre /\ other = call.preOther

\* ----------------------------------------------------------- ground claims
GroundAsked == call.op = "isGrounded"

\* the classification of cell (column c, row r), SOLID outside the grid
CellAt(c, r) ==
    IF c < 0 \/ r < 0 \/ c >= mapWidth \/ r >= mapHeight THEN SOLID
    ELSE IF r * mapWidth + c \in DOMAIN mapData THEN mapData[r * mapWidth + c]
    ELSE 0

\* the columns the body's bottom edge [left, right) lies over
ColumnsUnder(a) == (a.position.x \div Scale) .. ((Right(a) - 1) \div Scale)
\* the row directly under the bottom edge
RowUnder(a) == Bottom(a) \div Scale

\* the columns of the three points sampled along the bottom edge
SampledColumns(a) ==
    {a.position.x \div Scale,
     Floor([n |-> 2 * a.position.x + a.size.x, e |-> 1, d |-> 2 * Scale]),
     Floor(MinusEps(Num(Right(a))))}

\* C7 as stated: with vy = 0 and a WALKABLE cell directly under the bottom
\* edge isGrounded is true; with vy < 0 it is false.
C7_Original ==
    GroundAsked =>
        /\ (/\ call.pre.velocity.y = 0
            /\ \E c \in ColumnsUnder(call.pre) : isWalkable(CellAt(c, RowUnder(call.pre))))
           => call.ret
        /\ call.pre.velocity.y < 0 => ~call.ret

\* C7 amended: with vy = 0 and a WALKABLE cell under one of the three sampled
\* points of the bottom edge, isGrounded is true provided that one of the
\* sampled cells is SOLID or the body is not inside a passable volume; with
\* vy < 0 it is false.
C7_Grounded ==
    GroundAsked =>
        /\ (/\ call.pre.velocity.y = 0
            /\ \E c \in SampledColumns(call.pre) : isWalkable(CellAt(c, RowUnder(call.pre)))
            /\ \/ \E c \in SampledColumns(call.pre) : isSolid(CellAt(c, RowUnder(call.pre)))
               \/ ~actorIsInPassable(call.pre))
           => call.ret
        /\ call.pre.velocity.y < 0 => ~call.ret

\* C7 witness: a body at rest over a SOLID cell, inside a passable volume,
\* is grounded
C7_Witness ==
    /\ GroundAsked /\ call.ret /\ call.pre.velocity.y = 0
    /\ \E c \in SampledColumns(call.pre) : isSolid(CellAt(c, RowUnder(call.pre)))
    /\ actorIsInPassable(call.pre)

\* ------------------------------------------------------------ query claims
\* the cell a coordinate of a point query floors to (the queries carry no EPSILON)
QueryCell(p) == p.n \div p.d
\* the floored coordinate is a number outside 0 .. limit - 1
QueryOutside(p, limit) == ~IsNaN(p) /\ (QueryCell(p) < 0 \/ QueryCell(p) >= limit)
\* both coordinates are numbers and floor to a cell of the grid
QueryInside ==
    /\ ~IsNaN(call.x) /\ ~IsNaN(call.y)
    /\ ~QueryOutside(call.x, mapWidth) /\ ~QueryOutside(call.y, mapHeight)
\* destroy has not been called: the map data holds mapWidth * mapHeight cells
MapAlive == DOMAIN mapData = Cells(mapWidth, mapHeight)

\* C9 as stated: getPixelData returns SOLID when a floored coordinate is
\* outside the grid, and for every in-bounds coordinate the classification
\* stored at row floor(y), column floor(x).
C9_Original ==
    call.op = "getPixelData" =>
        /\ (QueryOutside(call.x, mapWidth) \/ QueryOutside(call.y, mapHeight))
           => call.ret = SOLID
        /\ QueryInside
           => /\ QueryCell(call.y) * mapWidth + QueryCell(call.x) \in DOMAIN mapData
              /\ call.ret = mapData[QueryCell(call.y) * mapWidth + QueryCell(call.x)]

\* C9 amended: getPixelData returns SOLID when a floored coordinate is
\* outside the grid, and for every in-bounds coordinate of a map that has
\* not been destroyed the classification stored at row floor(y), column
\* floor(x); after destroy an in-bounds query yields undefined.
C9_PixelData ==
    call.op = "getPixelData" =>
        /\ (QueryOutside(call.x, mapWidth) \/ QueryOutside(call.y, mapHeight))
           => call.ret = SOLID
        /\ (QueryInside /\ MapAlive)
           => call.ret = mapData[QueryCell(call.y) * mapWidth + QueryCell(call.x)]
        /\ (QueryInside /\ ~MapAlive) => call.ret = 0

\* C9 witness: an in-bounds query off the whole pixels, in a row below the
\* first and a column whose number is not the row's, returned the marked cell
C9_Witness ==
    /\ call.op = "getPixelData" /\ QueryInside /\ MapAlive
    /\ call.x.n % Scale # 0
    /\ QueryCell(call.y) >= 1
    /\ QueryCell(call.x) # QueryCell(call.y)
    /\ call.ret \in {SOLID, PASSABLE_SOLID}

\* the predicate testLine was given, at a point
TestAt(p, flag) == HasFlag(getPixelData(p.x, p.y), flag)
\* the i-th of the steps + 1 equally spaced points from start to end
IdealPoint(start, end, i, steps) ==
    IF steps = 0 THEN start
    ELSE [x |-> [n |-> start.x.n * (steps - i) + end.x.n * i,
                 e |-> start.x.e * (steps - i) + end.x.e * i, d |-> start.x.d * steps],
          y |-> [n |-> start.y.n * (steps - i) + end.y.n * i,
                 e |-> start.y.e * (steps - i) + end.y.e * i, d |-> start.y.d * steps]]

\* C8 as stated: testLine evaluates the predicate at the steps + 1 equally
\* spaced points in order, stops at the first that satisfies it and returns
\* whether one did; with steps = 0 it evaluates the start point only.
C8_TestLine ==
    call.op = "testLine" =>
        LET ideal == [i \in 0 .. call.steps |-> IdealPoint(call.start, call.end, i, call.steps)]
            hits == {i \in 0 .. call.steps : TestAt(ideal[i], call.flag)}
            last == IF hits = {} THEN call.steps
                    ELSE CHOOSE i \in hits : \A j \in hits : i <= j
        IN  /\ Len(call.calls) = last + 1
            /\ \A i \in 0 .. last :
                  /\ NumEq(call.calls[i + 1].x, ideal[i].x)
                  /\ NumEq(call.calls[i + 1].y, ideal[i].y)
            /\ call.ret = (hits # {})

====
